---- MODULE Spec2Model ----
(***************************************************************************)
(* A model of import_export/fields.py and import_export/instance_loaders.py *)
(* (SmartBase fork of django-import-export): the Field family's save and    *)
(* get_value and the two instance loaders, over an abstract store.          *)
(*                                                                          *)
(* Each component is a group of variables with its own specification; the   *)
(* groups a specification does not use stay at their idle value.            *)
(***************************************************************************)
EXTENDS Integers, Sequences, FiniteSets, TLC

VARIABLES
    \* ---- instance loaders ----
    store,          \* ids of the products the queryset holds
    resourceFields, \* resource.get_fields(): the attributes, in order
    dataset,        \* dataset.dict: the rows of the batch
    all_instances,  \* CachedInstanceLoader.all_instances, a set of <<key, id>>
    cacheBuilt,     \* CachedInstanceLoader.__init__ has run
    lastGet,        \* the last get_instance(row): the row and both loaders' answers
    \* ---- the product tree (ParentField) ----
    product,        \* the stored products: id -> [name, is_parent, slug]
    kids,           \* the tree: node id (0 = the root level) -> its children, in order
    treeStale,      \* the tree index is stale (what Product.fix_tree repairs)
    lastSave,       \* the last ParentField.save call and its outcome
    \* ---- prices (PriceField, OldPriceField) ----
    objId,          \* obj.id of the object the price fields save to (None: not stored)
    prices,         \* the Price table, a set of facts
    old_prices,     \* the OldPrice table, a set of facts
    imported,       \* history: per key, the last non-empty value PriceField.save cleaned
    lastPrice,      \* the last price save and its outcome; roundtrip: the cell
                    \* was what get_value gave for a fact of the field's key
    \* ---- attribute options (AttributeField) ----
    attrObj,        \* the object: [is_parent, product_class]
    options,        \* the AttributeOption table: [pk, product_class, group, name per language]
    option_values,  \* the AttributeOptionGroupValue table: [pk, group, value (an option's pk)]
    lastAttr,       \* the last AttributeField.save and what get_value gave right after
    \* ---- attached images (CarouselImageField) ----
    carousel_images,\* obj.carousel_images of one stored object: the images, in order
    lastCarousel,   \* the last CarouselImageField.save
    \* ---- translated attributes (TranslatableField) ----
    translations,   \* the translation rows: product id -> language -> [exists, slug]
    pending,        \* slugs set on the in-memory object itself: id -> language -> slug
    slugAccessor,   \* what Product.get_slug is: "method" or "property"
    objLang,        \* the current language of each product object (parler)
    lastSlug,       \* the last TranslatableField.save
    \* ---- plain attributes (Field) ----
    fobj,           \* the object Field.save writes: [id, name]
    \* ---- ambient language (django.utils.translation) ----
    activeLang

treeVars == <<product, kids, treeStale, lastSave>>
loaderVars == <<store, resourceFields, dataset, all_instances, cacheBuilt, lastGet>>

\* what an action of one component leaves alone: the other components
priceVars == <<objId, prices, old_prices, imported, lastPrice>>
attrVars == <<attrObj, options, option_values, lastAttr>>
carouselVars == <<carousel_images, lastCarousel>>
slugVars == <<translations, pending, slugAccessor, objLang, lastSlug>>
fieldVars == <<fobj>>
notLoader == <<treeVars, priceVars, attrVars, carouselVars, slugVars, fieldVars>>
notTree == <<loaderVars, priceVars, attrVars, carouselVars, slugVars, fieldVars>>
notPrice == <<loaderVars, treeVars, attrVars, carouselVars, slugVars, fieldVars, activeLang>>
notAttr == <<loaderVars, treeVars, priceVars, carouselVars, slugVars, fieldVars, activeLang>>
notCarousel == <<loaderVars, treeVars, priceVars, attrVars, slugVars, fieldVars, activeLang>>
notSlug == <<loaderVars, treeVars, priceVars, attrVars, carouselVars, fieldVars>>
notField == <<loaderVars, treeVars, priceVars, attrVars, carouselVars, slugVars, activeLang>>

(***************************************************************************)
(* Values.  Python's None and '' in an integer-valued cell.                 *)
(***************************************************************************)
NoneVal == -1
EmptyStr == -2
\* Field.empty_values
empty_values == {NoneVal, EmptyStr}

\* settings.LANGUAGES, in order
LANGUAGES == <<"en", "sk">>
LanguageCodes == {LANGUAGES[i] : i \in 1..Len(LANGUAGES)}

(***************************************************************************)
(* Bounds.                                                                  *)
(***************************************************************************)
MaxRows == 2        \* rows of a dataset
MaxStoreId == 3     \* ids of the products a store may hold

(***************************************************************************)
(* Field.clean: the row's cell under column_name, through the widget (the   *)
(* base widget hands the cell back), then the default if the cell is empty  *)
(* and a default is configured.  default = NoDefault stands for             *)
(* NOT_PROVIDED.                                                            *)
(***************************************************************************)
NoDefault == -3

FieldClean(cell, default) ==
    IF cell \in empty_values /\ default # NoDefault THEN default ELSE cell

\* "not value" for an integer-valued cleaned identifier
Falsy(v) == v \in empty_values \/ v = 0

(***************************************************************************)
(* The product table of the loader's store: each product's slug per         *)
(* language ("" = no translation in that language).                         *)
(***************************************************************************)
ProductSlug(id, lang) ==
    CASE id = 1 -> (IF lang = "en" THEN "a" ELSE "b")
      [] id = 2 -> (IF lang = "en" THEN "b" ELSE "")
      [] id = 3 -> (IF lang = "en" THEN "a" ELSE "c")
      [] OTHER  -> ""

\* queryset.translated(slug=s).first(): the lowest id whose slug in the active
\* language is s, or None
TranslatedFirst(ids, lang, s) ==
    LET hits == {i \in ids : ProductSlug(i, lang) = s}
    IN IF hits = {} THEN NoneVal
       ELSE CHOOSE i \in hits : \A j \in hits : i <= j

\* the attributes re.compile("slug_*").match accepts: "slug" followed by
\* anything
SlugAttributes == {"slug", "slug_en", "slug_sk"}

\* The answer of get_instance: an instance's id, None, or an exception
Found(id) == [kind |-> IF id = NoneVal THEN "none" ELSE "instance", id |-> id]
Raised(what) == [kind |-> what, id |-> NoneVal]

(***************************************************************************)
(* ModelInstanceLoader.get_instance, with the single identifier field "id". *)
(* A falsy cleaned id falls back to the first slug-like field of the        *)
(* resource, looked up in the active language; with no such field the       *)
(* lookup is get() with no parameters.                                      *)
(***************************************************************************)
SlugFieldIndexes(fields) == {i \in 1..Len(fields) : fields[i] \in SlugAttributes}

QuerysetGet(ids, matching) ==
    IF matching = {} THEN Found(NoneVal)            \* DoesNotExist -> None
    ELSE IF Cardinality(matching) > 1 THEN Raised("MultipleObjectsReturned")
    ELSE Found(CHOOSE i \in matching : TRUE)

ModelGetInstance(ids, fields, lang, row) ==
    LET v == FieldClean(row.id, NoDefault)
    IN IF Falsy(v)
       THEN IF SlugFieldIndexes(fields) # {}
            THEN Found(TranslatedFirst(ids, lang, row.slug_en))
            ELSE QuerysetGet(ids, ids)
       ELSE QuerysetGet(ids, {i \in ids : i = v})

(***************************************************************************)
(* CachedInstanceLoader: __init__ prefetches the instances whose id is      *)
(* among the cleaned ids of the dataset; get_instance is a dictionary       *)
(* lookup of the cleaned id.                                                *)
(***************************************************************************)
CachedBuild(ids, rows) ==
    LET cleaned == {FieldClean(rows[i].id, NoDefault) : i \in 1..Len(rows)}
    IN {<<i, i>> : i \in {j \in ids : j \in cleaned}}

CachedGetInstance(cache, row) ==
    LET v == FieldClean(row.id, NoDefault)
        hits == {p \in cache : p[1] = v}
    IN IF hits = {} THEN Found(NoneVal)
       ELSE Found((CHOOSE p \in hits : TRUE)[2])

(***************************************************************************)
(* ParentField.  The tree is treebeard's: every product is a node, the      *)
(* children of a node are ordered, node 0 stands for the root level.        *)
(***************************************************************************)
\* Python's None in a string-valued cell
NoneStr == "<None>"

Range(s) == {s[i] : i \in 1..Len(s)}

\* obj.get_parent(): None for a root node and for an object not yet stored
get_parent(k, n) ==
    IF \E p \in DOMAIN k : p # 0 /\ n \in Range(k[p])
    THEN CHOOSE p \in DOMAIN k : p # 0 /\ n \in Range(k[p])
    ELSE NoneVal

\* parent_obj.get_children()
get_children(k, p) == Range(k[p])

\* Product.objects.translated(slug=s).first() in language lang: None when no
\* product has that slug in that language
TranslatedSlugFirst(prod, lang, s) ==
    LET hits == {i \in DOMAIN prod : prod[i].slug[lang] = s}
    IN IF hits = {} THEN NoneVal
       ELSE CHOOSE i \in hits : \A j \in hits : i <= j

\* add_root(instance=obj) / add_child(instance=obj): the node is appended
AppendChild(k, p, n) == [k EXCEPT ![p] = Append(@, n)]

\* obj.move(target, 'last-child')
MoveLastChild(k, n, p) ==
    AppendChild([q \in DOMAIN k |-> SelectSeq(k[q], LAMBDA x : x # n)], p, n)

\* the id the store gives the next inserted row
NextId(prod) == Cardinality(DOMAIN prod) + 1

(***************************************************************************)
(* The move of ParentField.save, lines 436-442: move; on AttributeError     *)
(* (the stale tree index) fix_tree and move again, outside any handler.     *)
(* first and retry are what the two move calls do: "ok" or the exception    *)
(* they raise.  The answer holds the tree, the index's staleness, the error *)
(* that leaves save ("" for none) and the calls made.                       *)
(***************************************************************************)
NoFixMoveWithRetry(k, stale, n, p, first, retry) ==
    IF first = "ok"
    THEN [kids |-> MoveLastChild(k, n, p), stale |-> stale, error |-> "",
          moves |-> 1, fixes |-> 0]
    ELSE [kids |-> k, stale |-> stale, error |-> first, moves |-> 1, fixes |-> 0]

MoveWithRetry(k, stale, n, p, first, retry) ==
    IF first = "ok"
    THEN [kids |-> MoveLastChild(k, n, p), stale |-> stale, error |-> "",
          moves |-> 1, fixes |-> 0]
    ELSE IF first = "AttributeError"
    THEN IF retry = "ok"
         THEN [kids |-> MoveLastChild(k, n, p), stale |-> FALSE, error |-> "",
               moves |-> 2, fixes |-> 1]
         ELSE [kids |-> k, stale |-> FALSE, error |-> retry,
               moves |-> 2, fixes |-> 1]
    ELSE [kids |-> k, stale |-> stale, error |-> first, moves |-> 1, fixes |-> 0]

(***************************************************************************)
(* ParentField.save(obj, row).  obj is the in-memory object: its id (None   *)
(* for a new object), name and is_parent.  The answer is the store after    *)
(* the call and what the call did.                                          *)
(***************************************************************************)
SaveResult(prod, k, stale, lang, error, objAfter, parent, moves, fixes) ==
    [product |-> prod, kids |-> k, stale |-> stale, lang |-> lang, error |-> error,
     objAfter |-> objAfter, parent |-> parent, moves |-> moves, fixes |-> fixes]

\* the row a new or re-inserted object becomes: the translations of a stored
\* object stay with its old row
InsertedRow(obj) ==
    [name |-> obj.name, is_parent |-> obj.is_parent,
     slug |-> [l \in LanguageCodes |-> ""]]

\* the ValueError of line 429
ParentNotFound == "ValueError: Parent slug DOES NOT EXIST"

ParentFieldSave(prod, k, stale, lang, obj, readonly, cell, lookup, first, retry) ==
    LET value == cell       \* self.clean(data), no default configured
        new == NextId(prod)
    IN
    IF readonly THEN SaveResult(prod, k, stale, lang, "", obj.id, NoneVal, 0, 0)
    ELSE IF obj.is_parent \/ value = "" \/ value = NoneStr
    THEN IF obj.id = NoneVal
         THEN \* obj.add_root(instance=obj)
              SaveResult(prod @@ (new :> InsertedRow(obj)), AppendChild(k, 0, new),
                         stale, lang, "", new, NoneVal, 0, 0)
         ELSE SaveResult(prod, k, stale, lang, "", obj.id, NoneVal, 0, 0)
    ELSE \* the first language of settings.LANGUAGES; translation.activate
         LET l1 == LANGUAGES[1]
             parent_obj == TranslatedSlugFirst(prod, l1, value)
         IN
         IF lookup # "ok"
         THEN \* the query itself raised: except Exception
              SaveResult(prod, k, stale, l1, ParentNotFound, obj.id, NoneVal, 0, 0)
         ELSE IF parent_obj = NoneVal
         THEN \* first() gave None and raised nothing: parent_obj.get_children()
              SaveResult(prod, k, stale, l1, "AttributeError", obj.id, NoneVal, 0, 0)
         ELSE IF obj.id \in get_children(k, parent_obj)
         THEN SaveResult(prod, k, stale, l1, "", obj.id, parent_obj, 0, 0)
         ELSE IF get_parent(k, obj.id) = NoneVal
         THEN \* obj.id = None; parent_obj.add_child(instance=obj)
              SaveResult(prod @@ (new :> InsertedRow(obj)),
                         AppendChild(k, parent_obj, new),
                         stale, l1, "", new, parent_obj, 0, 0)
         ELSE LET m == MoveWithRetry(k, stale, obj.id, parent_obj, first, retry)
              IN SaveResult(prod, m.kids, m.stale, l1, m.error, obj.id, parent_obj,
                            m.moves, m.fixes)

\* ---- the tree's inputs and initial states ----
MaxNodes == 4       \* rows the product table may hold

InitialProducts ==
    (1 :> [name |-> "p1", is_parent |-> TRUE,  slug |-> ("en" :> "p1" @@ "sk" :> "r1")]) @@
    (2 :> [name |-> "p2", is_parent |-> TRUE,  slug |-> ("en" :> "p2" @@ "sk" :> "r2")]) @@
    (3 :> [name |-> "v1", is_parent |-> FALSE, slug |-> ("en" :> "v1" @@ "sk" :> "")])

EmptyTree == [n \in 0..MaxNodes |-> <<>>]
\* the variant v1 is a child of p1, or stands alone at the root level
InitialTrees ==
    { [EmptyTree EXCEPT ![0] = <<1, 2>>, ![1] = <<3>>],
      [EmptyTree EXCEPT ![0] = <<1, 2, 3>>] }

NewNames == {"n1"}
ParentCells == {"", NoneStr, "p1", "p2", "r1", "zz"}
MoveOutcomes == {"ok", "AttributeError", "DatabaseError"}
RetryOutcomes == {"ok", "DatabaseError"}
LookupOutcomes == {"ok", "DatabaseError"}

\* the objects save may be handed: a stored product, or a new one whose name
\* no stored product has
StoredObject(prod, i) == [id |-> i, name |-> prod[i].name, is_parent |-> prod[i].is_parent]
Objects(prod) ==
    {StoredObject(prod, i) : i \in DOMAIN prod}
    \cup {[id |-> NoneVal, name |-> nm, is_parent |-> ip] :
             nm \in {x \in NewNames : \A i \in DOMAIN prod : prod[i].name # x},
             ip \in BOOLEAN}

NoSave == [called |-> FALSE, obj |-> NoneVal, name |-> "", is_parent |-> FALSE,
           readonly |-> FALSE, cell |-> "", hadParent |-> NoneVal, first |-> "ok",
           error |-> "", objAfter |-> NoneVal, parent |-> NoneVal,
           moves |-> 0, fixes |-> 0, before |-> EmptyTree, repeat |-> FALSE]

TreeIdle ==
    /\ product = InitialProducts
    /\ kids = [EmptyTree EXCEPT ![0] = <<1, 2>>, ![1] = <<3>>]
    /\ treeStale = FALSE
    /\ lastSave = NoSave

TreeInit ==
    /\ product = InitialProducts
    /\ kids \in InitialTrees
    /\ treeStale \in BOOLEAN
    /\ lastSave = NoSave
    /\ activeLang \in LanguageCodes

\* ParentField.save(obj, row)
ParentSave(obj, readonly, cell, lookup, first, retry) ==
    LET r == ParentFieldSave(product, kids, treeStale, activeLang, obj, readonly,
                             cell, lookup, first, retry)
    IN /\ first = "AttributeError" => treeStale
       \* the outcome of the query is an input only where the query is made
       /\ lookup # "ok" => r.error = ParentNotFound
       \* the outcomes of the move calls are inputs only where a move is made
       /\ r.moves = 0 => first = "ok"
       /\ r.moves < 2 => retry = "ok"
       /\ DOMAIN r.product \subseteq 1..MaxNodes
       /\ product' = r.product
       /\ kids' = r.kids
       /\ treeStale' = r.stale
       /\ activeLang' = r.lang
       /\ lastSave' = [called |-> TRUE, obj |-> obj.id, name |-> obj.name,
                       is_parent |-> obj.is_parent, readonly |-> readonly,
                       cell |-> cell, hadParent |-> get_parent(kids, obj.id),
                       first |-> first, error |-> r.error, objAfter |-> r.objAfter,
                       parent |-> r.parent, moves |-> r.moves, fixes |-> r.fixes,
                       before |-> kids,
                       repeat |-> /\ lastSave.called
                                  /\ lastSave.error = ""
                                  /\ ~lastSave.readonly
                                  /\ lastSave.objAfter = obj.id
                                  /\ lastSave.cell = cell]
       /\ UNCHANGED notTree

\* writes from outside this code leave the tree index stale
IndexGoesStale ==
    /\ ~treeStale
    /\ treeStale' = TRUE
    /\ UNCHANGED <<product, kids, lastSave, activeLang, notTree>>

TreeNext ==
    \/ \E obj \in Objects(product), readonly \in BOOLEAN, cell \in ParentCells,
          lookup \in LookupOutcomes, first \in MoveOutcomes, retry \in RetryOutcomes :
            ParentSave(obj, readonly, cell, lookup, first, retry)
    \/ IndexGoesStale

(***************************************************************************)
(* PriceField and OldPriceField.  An amount is a decimal counted in units   *)
(* of 10^-6, so that the rounding to 5 fractional digits is visible.  The   *)
(* attribute is its list of '__'-separated tokens, a table its set of      *)
(* facts.                                                                   *)
(***************************************************************************)
\* round(Decimal(value), 5): to a multiple of 10 units, ties to even
PricePrecisionUnit == 10

RoundDecimal(a) ==
    LET q == a \div PricePrecisionUnit
        r == a % PricePrecisionUnit
    IN IF 2 * r < PricePrecisionUnit THEN q * PricePrecisionUnit
       ELSE IF 2 * r > PricePrecisionUnit THEN (q + 1) * PricePrecisionUnit
       ELSE IF q % 2 = 0 THEN q * PricePrecisionUnit
       ELSE (q + 1) * PricePrecisionUnit

\* tmp[-n]
FromEnd(tmp, n) == tmp[Len(tmp) - n + 1]

\* 'price_lvl' in self.attribute
PriceLvlTokens == {"price_lvl(1)", "price_lvl(2)"}
HasPriceLvl(tmp) == \E i \in 1..Len(tmp) : tmp[i] \in PriceLvlTokens

\* int(tmp[-4].partition('(')[-1].rpartition(')')[0])
ParenthesizedId(tok) ==
    CASE tok = "price_lvl(1)" -> 1
      [] tok = "price_lvl(2)" -> 2
      [] tok = "attr(1)" -> 1
      [] tok = "attr(2)" -> 2
      [] tok = "attr_notactive(2)" -> 2
      [] OTHER -> NoneVal

\* Decimal(attr_tax_ratio)
DecimalOf(tok) ==
    CASE tok = "10" -> 10
      [] tok = "20" -> 20
      [] tok = "20.0" -> 20
      [] OTHER -> NoneVal

\* the rows of Currency, TaxRatio and PriceLevel
Currencies == {"EUR"}
TaxRatios == {10, 20}
PriceLevels == {1}

\* the key a price column encodes
PriceKey(tmp) ==
    LET is_price_lvl == HasPriceLvl(tmp)
    IN [currency |-> FromEnd(tmp, 1),
        tax_ratio |-> DecimalOf(IF is_price_lvl THEN FromEnd(tmp, 5) ELSE FromEnd(tmp, 2)),
        price_level |-> IF is_price_lvl THEN ParenthesizedId(FromEnd(tmp, 4)) ELSE NoneVal]

\* the facts of a table that a lookup matches
MatchingPrices(table, oid, key) ==
    {f \in table : /\ f.object_id = oid
                   /\ f.currency = key.currency
                   /\ f.tax_ratio = key.tax_ratio
                   /\ f.price_level = key.price_level}

\* OldPrice facts have no price level: the lookup is by currency and tax ratio
MatchingOldPrices(table, oid, key) ==
    {f \in table : /\ f.object_id = oid
                   /\ f.currency = key.currency
                   /\ f.tax_ratio = key.tax_ratio}

NewFact(table, oid, key, amount) ==
    [object_id |-> oid, currency |-> key.currency,
     tax_ratio |-> key.tax_ratio, price_level |-> key.price_level, amount |-> amount]

\* manager.update_or_create(<key>, defaults={'_price_excluding_tax': amount})
AlwaysCreate(table, hits, new) ==
    [table |-> table \cup {new}, error |-> ""]

UpdateOrCreate(table, hits, new) ==
    IF hits = {} THEN [table |-> table \cup {new}, error |-> ""]
    ELSE IF Cardinality(hits) > 1
    THEN [table |-> table, error |-> "MultipleObjectsReturned"]
    ELSE [table |-> (table \ hits) \cup {[f EXCEPT !.amount = new.amount] : f \in hits},
          error |-> ""]

\* <related manager>.get(...): the amount, None (DoesNotExist), or the exception
PriceGet(hits) ==
    IF hits = {} THEN [value |-> NoneVal, error |-> ""]
    ELSE IF Cardinality(hits) > 1
    THEN [value |-> NoneVal, error |-> "MultipleObjectsReturned"]
    ELSE [value |-> (CHOOSE f \in hits : TRUE).amount, error |-> ""]

\* PriceField.get_value(obj)
PriceFieldGetValue(table, oid, field) ==
    PriceGet(MatchingPrices(table, oid, PriceKey(field.attribute)))

\* OldPriceField.get_value(obj)
OldPriceFieldGetValue(table, oid, field) ==
    PriceGet(MatchingOldPrices(table, oid, PriceKey(field.attribute)))

\* the rows the lookups of save need: Currency, TaxRatio, PriceLevel .get
MissingReference(key, with_level) ==
    IF key.currency \notin Currencies THEN "Currency.DoesNotExist"
    ELSE IF key.tax_ratio \notin TaxRatios THEN "TaxRatio.DoesNotExist"
    ELSE IF with_level /\ key.price_level \notin PriceLevels THEN "PriceLevel.DoesNotExist"
    ELSE ""

\* the id obj.save() gives an object not yet stored
FreshObjectId == 3

(***************************************************************************)
(* PriceField.save(obj, row): no readonly test; an empty cleaned value      *)
(* returns; otherwise the object is stored if it is not, and the fact is    *)
(* upserted with the amount rounded to 5 digits.                            *)
(***************************************************************************)
UnroundedPriceFieldSave(table, oid, field, cell) ==
    LET tmp == field.attribute
        key == PriceKey(tmp)
        value == FieldClean(cell, field.default)
        id == IF oid = NoneVal THEN FreshObjectId ELSE oid
        missing == MissingReference(key, HasPriceLvl(tmp))
        u == UpdateOrCreate(table, MatchingPrices(table, id, key),
                            NewFact(table, id, key, value))
    IN IF value = EmptyStr \/ value = NoneVal
       THEN [table |-> table, objId |-> oid, value |-> value, error |-> ""]
       ELSE IF missing # ""
       THEN [table |-> table, objId |-> id, value |-> value, error |-> missing]
       ELSE [table |-> u.table, objId |-> id, value |-> value, error |-> u.error]

PriceFieldSave(table, oid, field, cell) ==
    LET tmp == field.attribute
        key == PriceKey(tmp)
        value == FieldClean(cell, field.default)
    IN IF value = EmptyStr \/ value = NoneVal
       THEN [table |-> table, objId |-> oid, value |-> value, error |-> ""]
       ELSE LET rounded == RoundDecimal(value)
                id == IF oid = NoneVal THEN FreshObjectId ELSE oid
                missing == MissingReference(key, HasPriceLvl(tmp))
                u == UpdateOrCreate(table, MatchingPrices(table, id, key),
                                    NewFact(table, id, key, rounded))
            IN IF missing # ""
               THEN [table |-> table, objId |-> id, value |-> value, error |-> missing]
               ELSE [table |-> u.table, objId |-> id, value |-> value, error |-> u.error]

(***************************************************************************)
(* OldPriceField.save(obj, row): the same without the price level, the      *)
(* rounding and the storing of the object, on the OldPrice table.           *)
(***************************************************************************)
OldPriceFieldSave(table, oid, field, cell) ==
    LET tmp == field.attribute
        key == [PriceKey(tmp) EXCEPT !.price_level = NoneVal]
        value == FieldClean(cell, field.default)
    IN IF value = EmptyStr \/ value = NoneVal
       THEN [table |-> table, objId |-> oid, value |-> value, error |-> ""]
       ELSE LET missing == MissingReference(key, FALSE)
                u == UpdateOrCreate(table, MatchingOldPrices(table, oid, key),
                                    NewFact(table, oid, key, value))
            IN IF missing # ""
               THEN [table |-> table, objId |-> oid, value |-> value, error |-> missing]
               ELSE [table |-> u.table, objId |-> oid, value |-> value, error |-> u.error]

\* ---- the price fields' inputs and initial states ----
FlatEUR20 == <<"price", "20", "EUR">>
FlatEUR10 == <<"price", "10", "EUR">>
FlatUSD20 == <<"price", "20", "USD">>
LevelEUR20 == <<"price", "20", "price_lvl(1)", "level", "name", "EUR">>

PriceFieldDescr(cls, attribute, readonly, default) ==
    [cls |-> cls, attribute |-> attribute, readonly |-> readonly, default |-> default]

PriceFields ==
    { PriceFieldDescr("PriceField", FlatEUR20, FALSE, NoDefault),
      PriceFieldDescr("PriceField", LevelEUR20, FALSE, NoDefault),
      PriceFieldDescr("PriceField", FlatEUR10, FALSE, 15),
      PriceFieldDescr("PriceField", FlatUSD20, FALSE, NoDefault) }

OldPriceFields ==
    { PriceFieldDescr("OldPriceField", FlatEUR20, FALSE, NoDefault),
      PriceFieldDescr("OldPriceField", LevelEUR20, FALSE, NoDefault) }

\* the cells of a price column: '', None, and amounts in units of 10^-6
AmountCells == {EmptyStr, NoneVal, 5, 15, 20}

PriceKeys == {PriceKey(f.attribute) : f \in PriceFields}

\* facts written before the import: of the object (id 1) and of another (id 2)
InitialPrices ==
    { [object_id |-> 1, currency |-> "EUR", tax_ratio |-> 20,
       price_level |-> NoneVal, amount |-> 15],
      [object_id |-> 2, currency |-> "EUR", tax_ratio |-> 20,
       price_level |-> NoneVal, amount |-> 25] }
InitialOldPrices ==
    { [object_id |-> 1, currency |-> "EUR", tax_ratio |-> 20,
       price_level |-> NoneVal, amount |-> 15] }

NoPrice == [called |-> FALSE, field |-> PriceFieldDescr("", <<>>, FALSE, NoDefault),
            cell |-> NoneVal, value |-> NoneVal, roundtrip |-> FALSE, error |-> ""]

PriceIdle ==
    /\ objId = 1
    /\ prices = {}
    /\ old_prices = {}
    /\ imported = [k \in PriceKeys |-> NoneVal]
    /\ lastPrice = NoPrice

\* a new object with no fact, or the stored object 1 with the facts it has
PriceInit ==
    /\ objId \in {NoneVal, 1}
    /\ prices \in (IF objId = NoneVal THEN {{}} ELSE SUBSET InitialPrices)
    /\ old_prices \in (IF objId = NoneVal THEN {{}} ELSE SUBSET InitialOldPrices)
    /\ imported = [k \in PriceKeys |-> NoneVal]
    /\ lastPrice = NoPrice

\* PriceField.save(obj, row), row[column_name] = cell
PriceSave(field, cell) ==
    LET r == PriceFieldSave(prices, objId, field, cell)
        g == PriceFieldGetValue(prices, objId, field)
    IN /\ g.error = ""
       /\ prices' = r.table
       /\ objId' = r.objId
       /\ imported' = IF r.value \in {EmptyStr, NoneVal} THEN imported
                      ELSE [imported EXCEPT ![PriceKey(field.attribute)] = r.value]
       /\ lastPrice' = [called |-> TRUE, field |-> field, cell |-> cell,
                        value |-> r.value, roundtrip |-> (g.value # NoneVal /\ cell = g.value),
                        error |-> r.error]
       /\ UNCHANGED <<old_prices, notPrice>>

\* OldPriceField.save(obj, row) for a stored object
OldPriceSave(field, cell) ==
    LET r == OldPriceFieldSave(old_prices, objId, field, cell)
        g == OldPriceFieldGetValue(old_prices, objId, field)
    IN /\ objId # NoneVal
       /\ g.error = ""
       /\ old_prices' = r.table
       /\ lastPrice' = [called |-> TRUE, field |-> field, cell |-> cell,
                        value |-> r.value, roundtrip |-> (g.value # NoneVal /\ cell = g.value),
                        error |-> r.error]
       /\ UNCHANGED <<objId, prices, imported, notPrice>>

PriceNext ==
    \/ \E field \in PriceFields, cell \in AmountCells : PriceSave(field, cell)
    \/ \E field \in OldPriceFields, cell \in AmountCells : OldPriceSave(field, cell)

(***************************************************************************)
(* AttributeField.  The facts are those of one stored object.               *)
(***************************************************************************)
\* the AttributeOptionGroup table: id -> is_active
OptionGroups == (1 :> TRUE) @@ (2 :> FALSE)

\* 'notactive' in tmp[1]
NotActiveTokens == {"attr_notactive(2)"}

\* option.name: the name in the active language, else in the first language
\* that has one
OptionName(opt, lang) ==
    IF opt.name[lang] # "" THEN opt.name[lang]
    ELSE LET have == {i \in 1..Len(LANGUAGES) : opt.name[LANGUAGES[i]] # ""}
         IN IF have = {} THEN ""
            ELSE opt.name[LANGUAGES[CHOOSE i \in have : \A j \in have : i <= j]]

\* AttributeField.get_value(obj)
AttributeFieldGetValue(obj, opts, vals, lang, field) ==
    IF obj.is_parent THEN [value |-> NoneStr, error |-> ""]
    ELSE LET attr_id == ParenthesizedId(field.attribute[2])
             hits == {f \in vals : f.group = attr_id}
         IN IF hits = {} THEN [value |-> NoneStr, error |-> ""]
            ELSE IF Cardinality(hits) > 1
            THEN [value |-> NoneStr, error |-> "MultipleObjectsReturned"]
            ELSE LET f == CHOOSE f \in hits : TRUE
                     opt == CHOOSE o \in opts : o.pk = f.value
                 IN [value |-> OptionName(opt, lang), error |-> ""]

AttrResult(opts, vals, value, error) ==
    [options |-> opts, option_values |-> vals, value |-> value, error |-> error]

\* a save that keeps the fact the object already has (get_or_create)
KeepFactAttributeFieldSave(obj, opts, vals, lang, field, cell) ==
    LET tmp == field.attribute
        attr_id == ParenthesizedId(tmp[2])
        is_active == tmp[2] \notin NotActiveTokens
        value == IF cell \in {"", NoneStr} /\ field.default # NoneStr
                 THEN field.default ELSE cell
    IN
    IF field.readonly THEN AttrResult(opts, vals, value, "")
    ELSE IF value = "" \/ value = NoneStr THEN AttrResult(opts, vals, value, "")
    ELSE IF ~(attr_id \in DOMAIN OptionGroups /\ OptionGroups[attr_id] = is_active)
    THEN AttrResult(opts, vals, value, "AttributeOptionGroup.DoesNotExist")
    ELSE LET \* filter(product_class=..., group=group, translations__name=value):
             \* the name in any language
             found == {o \in opts : /\ o.product_class = obj.product_class
                                    /\ o.group = attr_id
                                    /\ \E l \in LanguageCodes : o.name[l] = value}
             created == [pk |-> Cardinality(opts) + 1,
                         product_class |-> obj.product_class, group |-> attr_id,
                         name |-> [l \in LanguageCodes |-> IF l = lang THEN value ELSE ""]]
             opts2 == IF found = {} THEN opts \cup {created} ELSE opts
             attr_option == IF found = {} THEN created.pk
                            ELSE CHOOSE i \in {o.pk : o \in found} :
                                     \A o \in found : i <= o.pk
             hits == {f \in vals : f.group = attr_id}
         IN IF Cardinality(hits) > 1
            THEN AttrResult(opts2, vals, value, "MultipleObjectsReturned")
            ELSE IF hits = {}
            THEN AttrResult(opts2,
                            vals \cup {[pk |-> Cardinality(vals) + 1, group |-> attr_id,
                                        value |-> attr_option]},
                            value, "")
            ELSE AttrResult(opts2, vals, value, "")

\* AttributeField.save(obj, row)
AttributeFieldSave(obj, opts, vals, lang, field, cell) ==
    LET tmp == field.attribute
        attr_id == ParenthesizedId(tmp[2])
        is_active == tmp[2] \notin NotActiveTokens
        value == IF cell \in {"", NoneStr} /\ field.default # NoneStr
                 THEN field.default ELSE cell
    IN
    IF field.readonly THEN AttrResult(opts, vals, value, "")
    ELSE IF value = "" \/ value = NoneStr THEN AttrResult(opts, vals, value, "")
    ELSE IF ~(attr_id \in DOMAIN OptionGroups /\ OptionGroups[attr_id] = is_active)
    THEN AttrResult(opts, vals, value, "AttributeOptionGroup.DoesNotExist")
    ELSE LET \* filter(product_class=..., group=group, translations__name=value):
             \* the name in any language
             found == {o \in opts : /\ o.product_class = obj.product_class
                                    /\ o.group = attr_id
                                    /\ \E l \in LanguageCodes : o.name[l] = value}
             created == [pk |-> Cardinality(opts) + 1,
                         product_class |-> obj.product_class, group |-> attr_id,
                         name |-> [l \in LanguageCodes |-> IF l = lang THEN value ELSE ""]]
             opts2 == IF found = {} THEN opts \cup {created} ELSE opts
             attr_option == IF found = {} THEN created.pk
                            ELSE CHOOSE i \in {o.pk : o \in found} :
                                     \A o \in found : i <= o.pk
             hits == {f \in vals : f.group = attr_id}
         IN IF Cardinality(hits) > 1
            THEN AttrResult(opts2, vals, value, "MultipleObjectsReturned")
            ELSE IF hits = {}
            THEN AttrResult(opts2,
                            vals \cup {[pk |-> Cardinality(vals) + 1, group |-> attr_id,
                                        value |-> attr_option]},
                            value, "")
            ELSE AttrResult(opts2,
                            (vals \ hits) \cup {[f EXCEPT !.value = attr_option] : f \in hits},
                            value, "")

\* ---- the attribute field's inputs and initial states ----
AttrFieldDescr(attribute, readonly) ==
    [attribute |-> attribute, readonly |-> readonly, default |-> NoneStr]

AttributeFields ==
    { AttrFieldDescr(<<"attribute", "attr(1)">>, FALSE),
      AttrFieldDescr(<<"attribute", "attr(1)">>, TRUE),
      AttrFieldDescr(<<"attribute", "attr_notactive(2)">>, FALSE),
      AttrFieldDescr(<<"attribute", "attr(2)">>, FALSE) }

AttrCells == {"", NoneStr, "red", "cervena", "blue"}

InitialOptions ==
    { [pk |-> 1, product_class |-> "c", group |-> 1,
       name |-> ("en" :> "red" @@ "sk" :> "cervena")],
      [pk |-> 2, product_class |-> "c", group |-> 1,
       name |-> ("en" :> "green" @@ "sk" :> "zelena")] }
\* no fact, one fact, or two facts of the same group (the conflicting data
\* get_value reports)
InitialOptionValues ==
    { {}, {[pk |-> 1, group |-> 1, value |-> 2]},
      {[pk |-> 1, group |-> 1, value |-> 1], [pk |-> 2, group |-> 1, value |-> 2]} }

NoAttr == [called |-> FALSE, field |-> AttrFieldDescr(<<>>, FALSE), cell |-> "",
           value |-> "", error |-> "", got |-> NoneStr, gotError |-> "",
           conflict |-> FALSE, alias |-> FALSE]

AttrIdle ==
    /\ attrObj = [is_parent |-> FALSE, product_class |-> "c"]
    /\ options = InitialOptions
    /\ option_values = {}
    /\ lastAttr = NoAttr

AttrInit ==
    /\ attrObj \in [is_parent : BOOLEAN, product_class : {"c"}]
    /\ options = InitialOptions
    /\ option_values \in InitialOptionValues
    /\ lastAttr = NoAttr
    /\ activeLang \in LanguageCodes

\* AttributeField.save(obj, row), then AttributeField.get_value(obj).
\* conflict: the object had more than one fact of the group; alias: an option
\* of the group carries the value as its name in a language that is not the
\* active one, under another name in the active one
AttributeSave(field, cell) ==
    LET r == AttributeFieldSave(attrObj, options, option_values, activeLang, field, cell)
        g == AttributeFieldGetValue(attrObj, r.options, r.option_values, activeLang, field)
        attr_id == ParenthesizedId(field.attribute[2])
    IN /\ options' = r.options
       /\ option_values' = r.option_values
       /\ lastAttr' = [called |-> TRUE, field |-> field, cell |-> cell,
                       value |-> r.value, error |-> r.error,
                       got |-> g.value, gotError |-> g.error,
                       conflict |-> Cardinality({f \in option_values : f.group = attr_id}) > 1,
                       alias |-> \E o \in options :
                                    /\ o.product_class = attrObj.product_class
                                    /\ o.group = attr_id
                                    /\ \E l \in LanguageCodes : o.name[l] = r.value
                                    /\ OptionName(o, activeLang) # r.value]
       /\ UNCHANGED <<attrObj, notAttr>>

AttrNext == \E field \in AttributeFields, cell \in AttrCells : AttributeSave(field, cell)

(***************************************************************************)
(* CarouselImageField.save(obj, row) for a stored object: no readonly test; *)
(* the collection is cleared, then one CarouselImages row is added per item *)
(* of the cleaned value.  A cleaned value of None is not iterable: the loop *)
(* raises TypeError, after the clear.                                       *)
(***************************************************************************)
KeepsCarouselImageFieldSave(current, field, cell) ==
    IF cell.none THEN [images |-> <<>>, error |-> "TypeError"]
    ELSE [images |-> current \o cell.items, error |-> ""]

CarouselImageFieldSave(current, field, cell) ==
    IF cell.none THEN [images |-> <<>>, error |-> "TypeError"]
    ELSE [images |-> cell.items, error |-> ""]

\* ---- the carousel's inputs and initial states ----
MaxImages == 3      \* images of a row's list
Images == {"a.png", "b.png", "c.png"}
ImageLists == UNION {[1..n -> Images] : n \in 0..MaxImages}
\* the cleaned value of the cell: None, or a list of images
CarouselCells == {[none |-> TRUE, items |-> <<>>]}
                 \cup {[none |-> FALSE, items |-> l] : l \in ImageLists}
CarouselFields == {[readonly |-> FALSE], [readonly |-> TRUE]}

NoCarousel == [called |-> FALSE, field |-> [readonly |-> FALSE],
               cell |-> [none |-> TRUE, items |-> <<>>], error |-> "", repeat |-> FALSE]

CarouselIdle ==
    /\ carousel_images = <<>>
    /\ lastCarousel = NoCarousel

CarouselInit ==
    /\ carousel_images \in {<<>>, <<"b.png">>}
    /\ lastCarousel = NoCarousel

\* repeat: the call before was given the same cell
CarouselSave(field, cell) ==
    LET r == CarouselImageFieldSave(carousel_images, field, cell)
    IN /\ carousel_images' = r.images
       /\ lastCarousel' = [called |-> TRUE, field |-> field, cell |-> cell,
                           error |-> r.error,
                           repeat |-> lastCarousel.called /\ lastCarousel.cell = cell]
       /\ UNCHANGED notCarousel

CarouselNext == \E field \in CarouselFields, cell \in CarouselCells : CarouselSave(field, cell)

(***************************************************************************)
(* TranslatableField.save for the attribute slug_<language>.  A product's   *)
(* translations are rows per language; an object without a row of the       *)
(* language is written itself (pending, until its owner saves it).          *)
(***************************************************************************)
\* the ValueError of lines 218-220
DuplicateSlug == "ValueError: Slug ALREADY EXISTS"

NoRow == [exists |-> FALSE, slug |-> ""]

\* Product.objects.translated(slug=s).exists() in language lang
TranslatedSlugExists(trans, lang, s) ==
    \E i \in DOMAIN trans : trans[i][lang].exists /\ trans[i][lang].slug = s

\* obj.get_slug, without a call: a bound method is true; a property is the
\* object's slug in its current language
GetSlugTruthy(trans, pend, accessor, id, lang) ==
    IF accessor = "method" THEN TRUE
    ELSE IF pend[id][lang] # NoneStr THEN pend[id][lang] # ""
    ELSE trans[id][lang].exists /\ trans[id][lang].slug \notin {"", NoneStr}

SlugResult(trans, pend, lang, value, error, wrote) ==
    [translations |-> trans, pending |-> pend, lang |-> lang, value |-> value,
     error |-> error, wrote |-> wrote]

\* with switch_language(obj, language): the object's language inside the
\* block, and after it (the context manager puts the old one back, on return
\* and on raise)
SwitchLanguage(langs, id, language) ==
    [inside |-> [langs EXCEPT ![id] = language], after |-> langs]

\* TranslatableField.get_value(obj) for slug_<language>: the slug set on the
\* object, else that of its row, else None; translation.activate has no
\* counterpart that puts the old language back
TranslatableFieldGetValue(trans, pend, langs, id, field) ==
    LET attr_language == field.language
        sw == SwitchLanguage(langs, id, attr_language)
        value == IF pend[id][attr_language] # NoneStr THEN pend[id][attr_language]
                 ELSE IF trans[id][attr_language].exists
                 THEN trans[id][attr_language].slug
                 ELSE NoneStr
    IN [value |-> value, lang |-> attr_language, objLang |-> sw.after]

\* setattr(translation_model, 'slug', v), and translation_model.save() when
\* it is a row
SetSlug(trans, pend, id, lang, v) ==
    IF trans[id][lang].exists
    THEN [translations |-> [trans EXCEPT ![id][lang].slug = v], pending |-> pend]
    ELSE [translations |-> trans, pending |-> [pend EXCEPT ![id][lang] = v]]

TranslatableFieldSave(trans, pend, accessor, lang, id, field, cell) ==
    LET attr_language == field.language
        value == cell          \* self.clean(data), no default configured
    IN
    IF field.readonly THEN SlugResult(trans, pend, lang, value, "", FALSE)
    ELSE \* switch_language(obj, attr_language); translation.activate
    IF field.blank_not_null
    THEN LET w == SetSlug(trans, pend, id, attr_language,
                          IF value = NoneStr THEN "" ELSE value)
         IN SlugResult(w.translations, w.pending, attr_language, value, "", TRUE)
    ELSE IF /\ ~GetSlugTruthy(trans, pend, accessor, id, attr_language)
            /\ TranslatedSlugExists(trans, attr_language, value)
    THEN SlugResult(trans, pend, attr_language, value, DuplicateSlug, FALSE)
    ELSE LET w == SetSlug(trans, pend, id, attr_language, value)
         IN SlugResult(w.translations, w.pending, attr_language, value, "", TRUE)

\* ---- the slug field's inputs and initial states ----
\* blank_not_null: field.blank and not field.null and not field.is_relation
TranslatedSlugFields == [language : LanguageCodes, blank_not_null : BOOLEAN, readonly : BOOLEAN]
TranslatedSlugCells == {NoneStr, "a", "z"}

\* products 1 and 2 have a slug in one language, product 3 has none; the objects
\* imported are products 2 and 3
InitialTranslations ==
    (1 :> ("en" :> [exists |-> TRUE, slug |-> "a"] @@ "sk" :> NoRow)) @@
    (2 :> ("en" :> [exists |-> TRUE, slug |-> "c"] @@ "sk" :> NoRow)) @@
    (3 :> ("en" :> NoRow @@ "sk" :> NoRow))

NoPending == [i \in DOMAIN InitialTranslations |-> [l \in LanguageCodes |-> NoneStr]]

NoSlug == [called |-> FALSE, op |-> "save", obj |-> NoneVal,
           field |-> [language |-> "en", blank_not_null |-> FALSE, readonly |-> FALSE],
           value |-> NoneStr, error |-> "", wrote |-> FALSE, duplicate |-> FALSE]

SlugIdle ==
    /\ translations = InitialTranslations
    /\ pending = NoPending
    /\ slugAccessor = "property"
    /\ objLang = [i \in DOMAIN InitialTranslations |-> LANGUAGES[1]]
    /\ lastSlug = NoSlug

SlugInit ==
    /\ translations = InitialTranslations
    /\ pending = NoPending
    /\ slugAccessor \in {"method", "property"}
    /\ \E l \in LanguageCodes : objLang = [i \in DOMAIN InitialTranslations |-> l]
    /\ lastSlug = NoSlug
    /\ activeLang \in LanguageCodes

\* TranslatableField.save(obj, row) for the stored product id.  duplicate:
\* another stored product had the cleaned slug in the field's language
TranslatableSave(id, field, cell) ==
    LET r == TranslatableFieldSave(translations, pending, slugAccessor, activeLang,
                                   id, field, cell)
    IN /\ translations' = r.translations
       /\ pending' = r.pending
       /\ activeLang' = r.lang
       /\ objLang' = SwitchLanguage(objLang, id, field.language).after
       /\ lastSlug' = [called |-> TRUE, op |-> "save", obj |-> id, field |-> field,
                       value |-> r.value,
                       error |-> r.error, wrote |-> r.wrote,
                       duplicate |-> \E j \in DOMAIN translations :
                                        /\ j # id
                                        /\ translations[j][field.language].exists
                                        /\ translations[j][field.language].slug = r.value]
       /\ UNCHANGED <<slugAccessor, notSlug>>

\* TranslatableField.get_value(obj) for the stored product id
TranslatableGet(id, field) ==
    LET g == TranslatableFieldGetValue(translations, pending, objLang, id, field)
    IN /\ activeLang' = g.lang
       /\ objLang' = g.objLang
       /\ lastSlug' = [called |-> TRUE, op |-> "get", obj |-> id, field |-> field,
                       value |-> g.value, error |-> "", wrote |-> FALSE,
                       duplicate |-> FALSE]
       /\ UNCHANGED <<translations, pending, slugAccessor, notSlug>>

ImportedProducts == {2, 3}

SlugNext ==
    \/ \E id \in ImportedProducts, field \in TranslatedSlugFields,
          cell \in TranslatedSlugCells : TranslatableSave(id, field, cell)
    \/ \E id \in ImportedProducts, field \in TranslatedSlugFields :
          TranslatableGet(id, field)

(***************************************************************************)
(* Field.save(obj, row, is_m2m=False) for the attributes "name" and "id".   *)
(* attrs[-1] is 'id' compares identities: whether the piece split() made is *)
(* the literal's object is the interpreter's choice (same_object).          *)
(***************************************************************************)
FieldSave(obj, field, cell, same_object) ==
    LET cleaned == IF cell \in {"", NoneStr} /\ field.default # NoneStr
                   THEN field.default ELSE cell
    IN IF field.readonly THEN obj
       ELSE IF field.attribute = "id" /\ same_object THEN obj
       ELSE IF cleaned # NoneStr \/ field.saves_null_values
       THEN IF field.attribute = "id" THEN [obj EXCEPT !.id = cleaned]
            ELSE [obj EXCEPT !.name = cleaned]
       ELSE obj

\* ---- the plain field's inputs and initial states ----
PlainFields ==
    [attribute : {"name", "id"}, default : {NoneStr, "dflt"},
     saves_null_values : BOOLEAN, readonly : BOOLEAN]
PlainCells == {"", NoneStr, "x"}

FieldIdle == fobj = [id |-> "1", name |-> "old"]

\* Field.save(obj, row)
PlainSave(field, cell, same_object) ==
    /\ fobj' = FieldSave(fobj, field, cell, same_object)
    /\ UNCHANGED notField

\* ---- the loaders' inputs and initial states ----
IdCells == {EmptyStr, 1, 2, MaxStoreId + 1}
SlugCells == {"", "a", "b"}
Rows == [id : IdCells, slug_en : SlugCells]
Datasets == UNION {[1..n -> Rows] : n \in 1..MaxRows}
ResourceFieldLists == {<<"id", "name">>, <<"id", "name", "slug_en">>}

NoGet == [row |-> 0, model |-> Found(NoneVal), cached |-> Found(NoneVal)]

LoaderIdle ==
    /\ store = {}
    /\ resourceFields = <<"id", "name">>
    /\ dataset = <<>>
    /\ all_instances = {}
    /\ cacheBuilt = FALSE
    /\ lastGet = NoGet

LoaderInit ==
    /\ store \in SUBSET (1..MaxStoreId)
    /\ resourceFields \in ResourceFieldLists
    /\ dataset \in Datasets
    /\ all_instances = {}
    /\ cacheBuilt = FALSE
    /\ lastGet = NoGet
    /\ activeLang \in LanguageCodes

\* CachedInstanceLoader(resource, dataset)
CachedInstanceLoaderInit ==
    /\ ~cacheBuilt
    /\ all_instances' = CachedBuild(store, dataset)
    /\ cacheBuilt' = TRUE
    /\ UNCHANGED <<store, resourceFields, dataset, lastGet, activeLang, notLoader>>

\* get_instance(r) on both loaders, for a row r of the dataset
GetInstance(k) ==
    /\ cacheBuilt
    /\ lastGet' = [row |-> k,
                   model |-> ModelGetInstance(store, resourceFields, activeLang, dataset[k]),
                   cached |-> CachedGetInstance(all_instances, dataset[k])]
    /\ UNCHANGED <<store, resourceFields, dataset, all_instances, cacheBuilt, activeLang, notLoader>>

LoaderNext ==
    \/ CachedInstanceLoaderInit
    \/ \E k \in 1..Len(dataset) : GetInstance(k)

(***************************************************************************)
(* The specifications, one per component.                                   *)
(***************************************************************************)
vars == <<loaderVars, treeVars, priceVars, attrVars, carouselVars, slugVars,
          fieldVars, activeLang>>

InitLoader ==
    LoaderInit /\ TreeIdle /\ PriceIdle /\ AttrIdle /\ CarouselIdle /\ SlugIdle /\ FieldIdle
SpecLoader == InitLoader /\ [][LoaderNext]_vars

InitTree ==
    TreeInit /\ LoaderIdle /\ PriceIdle /\ AttrIdle /\ CarouselIdle /\ SlugIdle /\ FieldIdle
SpecTree == InitTree /\ [][TreeNext]_vars

InitPrice ==
    /\ PriceInit /\ LoaderIdle /\ TreeIdle /\ AttrIdle /\ CarouselIdle /\ SlugIdle /\ FieldIdle
    /\ activeLang = LANGUAGES[1]
SpecPrice == InitPrice /\ [][PriceNext]_vars

InitAttr ==
    AttrInit /\ LoaderIdle /\ TreeIdle /\ PriceIdle /\ CarouselIdle /\ SlugIdle /\ FieldIdle
SpecAttr == InitAttr /\ [][AttrNext]_vars

InitCarousel ==
    /\ CarouselInit /\ LoaderIdle /\ TreeIdle /\ PriceIdle /\ AttrIdle /\ SlugIdle /\ FieldIdle
    /\ activeLang = LANGUAGES[1]
SpecCarousel == InitCarousel /\ [][CarouselNext]_vars

InitSlug ==
    SlugInit /\ LoaderIdle /\ TreeIdle /\ PriceIdle /\ AttrIdle /\ CarouselIdle /\ FieldIdle
SpecSlug == InitSlug /\ [][SlugNext]_vars

(***************************************************************************)
(* An import whose fields are all declared readonly: every step is the save *)
(* of one field class, through a readonly field.                            *)
(***************************************************************************)
InitReadonly ==
    /\ LoaderIdle /\ TreeIdle /\ PriceIdle /\ AttrIdle /\ CarouselIdle /\ SlugIdle /\ FieldIdle
    /\ activeLang = LANGUAGES[1]

ReadonlyOf(fields) == {[f EXCEPT !.readonly = TRUE] : f \in fields}

ReadonlyFieldSave ==
    \E field \in ReadonlyOf(PlainFields), cell \in PlainCells, same_object \in BOOLEAN :
        PlainSave(field, cell, same_object)
ReadonlyTranslatableSave ==
    \E field \in ReadonlyOf(TranslatedSlugFields) : TranslatableSave(2, field, "a")
ReadonlyPriceSave ==
    \E field \in ReadonlyOf({PriceFieldDescr("PriceField", FlatEUR20, FALSE, NoDefault)}),
       cell \in {EmptyStr, 20} : PriceSave(field, cell)
ReadonlyOldPriceSave ==
    \E field \in ReadonlyOf(OldPriceFields), cell \in {EmptyStr, 20} :
        OldPriceSave(field, cell)
ReadonlyAttributeSave ==
    \E field \in ReadonlyOf(AttributeFields) : AttributeSave(field, "blue")
ReadonlyCarouselSave ==
    \E field \in ReadonlyOf(CarouselFields),
       cell \in {c \in CarouselCells : Len(c.items) <= 1} : CarouselSave(field, cell)
ReadonlyParentSave ==
    \E obj \in Objects(product) : ParentSave(obj, TRUE, "p2", "ok", "ok", "ok")

ReadonlyNext ==
    \/ ReadonlyFieldSave
    \/ ReadonlyTranslatableSave
    \/ ReadonlyPriceSave
    \/ ReadonlyOldPriceSave
    \/ ReadonlyAttributeSave
    \/ ReadonlyCarouselSave
    \/ ReadonlyParentSave

SpecReadonly == InitReadonly /\ [][ReadonlyNext]_vars

(***************************************************************************)
(* The claims.                                                              *)
(***************************************************************************)

\* C1: for every row r of the dataset the cached loader and the model loader
\* give the same answer to get_instance(r): the same instance or the same
\* absence of one, rows with an empty identifier cell included.
C1_LoadersAgree ==
    lastGet.row # 0 => lastGet.cached = lastGet.model

\* the save the claims on ParentField are about: a field that is not
\* readonly, an object that is not root-type, a cleaned slug that is not empty
AttachCall ==
    /\ lastSave.called /\ ~lastSave.readonly /\ ~lastSave.is_parent
    /\ lastSave.cell \notin {"", NoneStr}

\* C2: ParentField.save for an object that is not root-type and a slug no
\* stored object has in the reference language fails with ParentNotFound
\* (the ValueError naming the object and the slug) and neither attaches nor
\* moves the object.
C2_ParentNotFound ==
    (AttachCall /\ TranslatedSlugFirst(product, LANGUAGES[1], lastSave.cell) = NoneVal)
        => /\ lastSave.error = ParentNotFound
           /\ kids = lastSave.before

\* the rows of the product table that hold the product of the last save
RowsOf(name) == {i \in DOMAIN product : product[i].name = name}

\* C3: attaching is idempotent: after save with a slug that resolves to a
\* parent P the object is in the tree exactly once, with the single parent
\* P, and a second save with the same row changes nothing.
C3_AttachIdempotent ==
    (AttachCall /\ lastSave.parent # NoneVal /\ lastSave.error = "")
        => /\ Cardinality(RowsOf(lastSave.name)) = 1
           /\ get_parent(kids, lastSave.objAfter) = lastSave.parent
           /\ lastSave.repeat => kids = lastSave.before

\* the save that moved: the object had another parent than the resolved one
MoveCall == AttachCall /\ lastSave.moves > 0

\* C10: a move that fails on the stale tree index is followed by one repair
\* of the index and one more move, never more; if that move succeeds the
\* object is the last child of the resolved parent, and if it fails its
\* failure leaves save, the tree as it was.
C10_RepairAndRetryOnce ==
    MoveCall =>
        IF lastSave.first = "AttributeError"
        THEN /\ lastSave.moves = 2 /\ lastSave.fixes = 1
             /\ lastSave.error = "" =>
                    /\ kids[lastSave.parent] # <<>>
                    /\ kids[lastSave.parent][Len(kids[lastSave.parent])] = lastSave.obj
                    /\ get_parent(kids, lastSave.obj) = lastSave.parent
             /\ lastSave.error # "" =>
                    /\ lastSave.error # "AttributeError"
                    /\ kids = lastSave.before
        ELSE /\ lastSave.moves = 1 /\ lastSave.fixes = 0
             /\ lastSave.error = "" <=> lastSave.first = "ok"

\* a move failed on the stale index and its retry succeeded
C10_Witness ==
    /\ MoveCall /\ lastSave.first = "AttributeError" /\ lastSave.error = ""
    /\ lastSave.hadParent # lastSave.parent

\* r is a to 5 fractional digits: the multiple of 10^-5 nearest to a
RoundedTo5(a, r) ==
    /\ r % 10 = 0
    /\ 2 * (r - a) <= 10 /\ 2 * (a - r) <= 10

\* the step is a save whose cell is the amount get_value gave just before
RoundTripStep(cls) ==
    /\ lastPrice'.called /\ lastPrice'.roundtrip
    /\ lastPrice'.field.cls = cls

\* C6: price round trip: when get_value gives the amount a of an existing
\* fact, save with the column set to a leaves that same fact holding a
\* rounded to the field's precision (5 digits for PriceField, a itself for
\* OldPriceField) and creates or changes no fact under any other key.
C6_PriceRoundTrip ==
    [][ /\ RoundTripStep("PriceField") =>
             LET key == PriceKey(lastPrice'.field.attribute)
                 hit == MatchingPrices(prices, objId, key)
             IN /\ lastPrice'.error = ""
                /\ Cardinality(hit) = 1
                /\ \E r \in 0..(lastPrice'.cell + 10) :
                     /\ RoundedTo5(lastPrice'.cell, r)
                     /\ prices' = (prices \ hit)
                                    \cup {[f EXCEPT !.amount = r] : f \in hit}
                /\ old_prices' = old_prices
                /\ objId' = objId
        /\ RoundTripStep("OldPriceField") =>
             /\ lastPrice'.error = ""
             /\ old_prices' = old_prices
             /\ prices' = prices
      ]_vars

\* a PriceField round trip of an amount with a sixth digit
C6_Witness ==
    /\ lastPrice.called /\ lastPrice.roundtrip /\ lastPrice.error = ""
    /\ lastPrice.field.cls = "PriceField"
    /\ lastPrice.cell % 10 # 0

\* the key is one save can write: its currency, tax ratio and level exist
ValidKey(key) == MissingReference(key, key.price_level # NoneVal) = ""

\* every key holds at most one fact of the object, and a key that was imported
\* holds the last imported amount, rounded
C9_OneFactPerKey ==
    \A key \in PriceKeys :
        LET fs == MatchingPrices(prices, objId, key)
        IN /\ Cardinality(fs) <= 1
           /\ (imported[key] # NoneVal /\ ValidKey(key)) =>
                 /\ fs # {}
                 /\ \A f \in fs : RoundedTo5(imported[key], f.amount)

\* C9: after any sequence of PriceField.save calls for one object the price
\* table holds at most one fact per (object, currency, tax_ratio,
\* price_level), its amount the most recent non-empty imported value of that
\* key rounded to 5 fractional digits; a save whose cleaned value is empty or
\* null changes and deletes no fact.
C9_LastImportWins ==
    /\ []C9_OneFactPerKey
    /\ [][ (lastPrice'.called /\ lastPrice'.value \in {EmptyStr, NoneVal})
             => (prices' = prices /\ old_prices' = old_prices) ]_vars

\* a second import of a key replaced the amount of the first
C9_Witness ==
    /\ lastPrice.called /\ lastPrice.field.attribute = FlatEUR20
    /\ lastPrice.field.cls = "PriceField" /\ lastPrice.value = 5
    /\ imported[PriceKey(LevelEUR20)] = 15
    /\ \E f \in MatchingPrices(prices, objId, PriceKey(FlatEUR20)) : f.amount = 0
    /\ \E f \in MatchingPrices(prices, objId, PriceKey(LevelEUR20)) : f.amount = 20

\* a save that wrote: the field is not readonly, the cleaned value is not
\* empty, the group exists and the object had no conflicting facts
AttrSaved ==
    /\ lastAttr.called /\ ~lastAttr.field.readonly
    /\ lastAttr.value \notin {"", NoneStr}
    /\ lastAttr.error = "" /\ ~lastAttr.conflict

\* C5 as stated: for any object and option group with no prior conflicting
\* fact, save with a non-empty cleaned value v followed at once by get_value
\* on the same object and column returns v.
C5_SaveThenGet ==
    AttrSaved => (lastAttr.gotError = "" /\ lastAttr.got = lastAttr.value)

\* C5 amended: the same for an object that is not parent-type, when no option
\* of the group already carries v as a name in another language than the
\* active one.
C5_SaveThenGetLeaf ==
    (AttrSaved /\ ~attrObj.is_parent /\ ~lastAttr.alias)
        => (lastAttr.gotError = "" /\ lastAttr.got = lastAttr.value)

\* a leaf object, a value that replaced the option of an earlier fact
C5_Witness ==
    /\ AttrSaved /\ ~attrObj.is_parent /\ ~lastAttr.alias
    /\ lastAttr.value = "blue" /\ lastAttr.got = "blue"
    /\ Cardinality(options) > Cardinality(InitialOptions)

\* C4: after any sequence of CarouselImageField.save calls on one object its
\* attached images are exactly one per item of the cleaned value of the last
\* call, nothing of earlier calls (a cleaned value of None has no item).
C4_CarouselReplaced ==
    lastCarousel.called => carousel_images = lastCarousel.cell.items

\* the same 3-image row imported twice
C4_Witness ==
    /\ lastCarousel.called /\ lastCarousel.repeat
    /\ Len(lastCarousel.cell.items) = 3 /\ Len(carousel_images) = 3

\* C7: a field declared readonly is ignored during import: save through a
\* readonly field of any field class leaves the object, its collections and
\* every table as they were.
C7_ReadonlyIgnored ==
    [][UNCHANGED <<fobj, translations, pending, objId, prices, old_prices,
                   options, option_values, carousel_images, product, kids>>]_vars

\* C8: TranslatableField.save of a slug that another stored product already
\* has (in the field's language) fails with DuplicateSlug and writes the slug
\* neither to the object nor to its translation row.
C8_DuplicateSlugRejected ==
    (/\ lastSlug.called /\ lastSlug.op = "save" /\ ~lastSlug.field.readonly
     /\ lastSlug.value \notin {"", NoneStr} /\ lastSlug.duplicate)
        => (lastSlug.error = DuplicateSlug /\ ~lastSlug.wrote)

\* C11: language switching is scoped to the call: after
\* TranslatableField.get_value or TranslatableField.save returns or raises,
\* the object's current language and the ambient active language are what
\* they were before the call.
C11_LanguageRestored ==
    [][objLang' = objLang /\ activeLang' = activeLang]_vars

====
